---- MODULE Spec2Model ----
(***************************************************************************)
(* A model of the Deriv trading bot core (src/src/lib/trading-engine.ts):  *)
(* the protocol client DerivAPI (connection life cycle, request/reply      *)
(* correlation, subscriptions, reconnection, keep-alive) and the trade     *)
(* orchestration engine TradingEngine (trade pairs, settlement, martingale *)
(* stake, the auto-trading loop).                                          *)
(*                                                                         *)
(* SpecApi is the protocol client driven by its callers and by the venue.  *)
(* Spec is the trading engine; a venue call made by the engine is a        *)
(* pending promise that the venue resolves or rejects.                     *)
(* Amounts of money are integers (units of the account currency).          *)
(***************************************************************************)
EXTENDS Integers, Sequences, FiniteSets, TLC

(***************************************************************************)
(* Bounds of the model.                                                    *)
(***************************************************************************)
MaxReq == 2          \* correlation identifiers handed out by send
MaxSockets == 2      \* WebSocket objects alive at the same time
MaxTimers == 2       \* reconnect timers pending at the same time
MaxHeartbeats == 2   \* keep-alive intervals running at the same time
MaxLoops == 2        \* executeNextTrade closures alive at the same time
MaxPairs == 2        \* trade pairs placed
MaxLosses == 2       \* largest consecutive-loss count
MaxPnL == 2          \* largest cumulative profit and cumulative loss
MaxStreak == 6       \* largest loss count calculateMartingaleStake is asked about

(***************************************************************************)
(* Program constants.                                                      *)
(***************************************************************************)
maxReconnectAttempts == 5
InitialRequestId == 1
StakeCap == 10       \* "Cap at 10x original stake"
DefaultMaxMultiplier == 10   \* calculateMartingaleStake: maxMultiplier = 10

VARIABLES
    \* ---- DerivAPI ----
    ws,                 \* this.ws: 0 (null) or the socket it refers to
    socks,              \* readyState of every WebSocket object created
    requestId,          \* this.requestId
    callbacks,          \* this.callbacks: req_id -> the call it completes
    subscriptions,      \* this.subscriptions: channel kind -> handler
    reconnectAttempts,  \* this.reconnectAttempts
    rcTimers,           \* number of reconnect timers not yet fired
    rcHandleLive,       \* this.reconnectTimeout refers to a timer not yet fired
    reconnectDelay,     \* delay (ms) of the reconnect timer scheduled last
    heartbeats,         \* number of setInterval keep-alive timers running
    wire,               \* requests the venue can still answer (sent on a socket still open)
    calls,              \* every call that was assigned an identifier, in order
    delivered,          \* the push handler invoked last and the message kind it was given
    \* ---- TradingEngine ----
    isConnected,        \* tradingState.isConnected
    isTrading,          \* tradingState.isTrading
    accountInfo,        \* tradingState.accountInfo
    currentMarket,      \* tradingState.currentMarket
    tradeHistory,       \* tradingState.tradeHistory, most recent first
    totalProfit,        \* tradingState.totalProfit
    totalLoss,          \* tradingState.totalLoss
    consecutiveLosses,  \* tradingState.consecutiveLosses
    tradeTimeout,       \* the loop whose pending timer this.tradeTimeout refers to
                        \* (0: null, or a timer that has fired already)
    loops,              \* the executeNextTrade closures and their trade pair in flight
    lossRun,            \* pairs that completed with a loss since the last pair that won
    tradeConfig,        \* the TradeConfig the user starts auto-trading with
    streams,            \* symbols whose tick subscription the venue accepted (none is
                        \* ever forgotten: the engine never calls unsubscribe)
    initError,          \* the call whose failure the last initialize() threw, or "none"
    marketError,        \* the call whose failure the last setMarket() threw, or "none"
    direct,             \* the executeTradePair call the user of the engine made last:
                        \* its legs in flight, or how it ended (a leg is "held" when
                        \* its contract was bought and the call failed)
    snapshot,           \* the TradingState copy the presentation layer got last:
                        \* the scalars by value, the objects by reference
    riskCalc            \* the RiskCalculator call made last: its arguments and
                        \* what it returned

apiVars == <<ws, socks, requestId, callbacks, subscriptions, reconnectAttempts,
             rcTimers, rcHandleLive, reconnectDelay, heartbeats, wire, calls,
             delivered>>

engineVars == <<isConnected, isTrading, accountInfo, currentMarket, tradeHistory,
                totalProfit, totalLoss, consecutiveLosses, tradeTimeout, loops,
                lossRun, tradeConfig, streams, initError, marketError, direct,
                snapshot, riskCalc>>

\* the venue's tick streams, the outcome of initialize() and setMarket(), the
\* executeTradePair call made outside the trading loop, and the TradingState copy
\* the presentation layer holds
sessionVars == <<streams, initError, marketError, direct, snapshot>>

vars == <<apiVars, engineVars>>

(***************************************************************************)
(* DerivAPI                                                                *)
(***************************************************************************)
Sockets == 1..MaxSockets
Channels == {"tick", "balance", "portfolio"}
Handlers == {1, 2}
\* the subscriptions the callers of the client make
Subscribers == {<<"tick", 1>>, <<"tick", 2>>, <<"balance", 1>>, <<"portfolio", 1>>}
CallKinds == {"proposal"}

\* msg_type of the venue's reply to a request
ReplyType(kind) ==
    CASE kind = "ticks" -> "tick"
      [] kind = "balance" -> "balance"
      [] kind = "portfolio" -> "portfolio"
      [] OTHER -> kind

\* request sent by subscribeToTicks / subscribeToBalance / subscribeToPortfolio
SubscribeRequest(ch) == IF ch = "tick" THEN "ticks" ELSE ch

\* this.ws && this.ws.readyState === WebSocket.OPEN
WsOpen == ws # 0 /\ socks[ws] = "open"

FreeSlots == {s \in Sockets : socks[s] = "free"}
NewSocket == CHOOSE s \in FreeSlots : \A t \in FreeSlots : s <= t

\* a closed WebSocket that this.ws no longer refers to is garbage
Release(sk, w) == [s \in Sockets |-> IF sk[s] = "closed" /\ s # w THEN "free" ELSE sk[s]]

RECURSIVE Pow(_, _)
Pow(b, n) == IF n = 0 THEN 1 ELSE b * Pow(b, n - 1)

MapSet(f, k, v) == [x \in DOMAIN f \cup {k} |-> IF x = k THEN v ELSE f[x]]
MapDel(f, k) == [x \in DOMAIN f \ {k} |-> f[x]]
EmptyMap == [x \in {} |-> 0]

\* no push handler was invoked yet
NoDelivery == [ch |-> "none", h |-> 0]

ApiInit ==
    /\ ws = 0
    /\ socks = [s \in Sockets |-> "free"]
    /\ requestId = InitialRequestId
    /\ callbacks = EmptyMap
    /\ subscriptions = EmptyMap
    /\ reconnectAttempts = 0
    /\ rcTimers = 0
    /\ rcHandleLive = FALSE
    /\ reconnectDelay = 0
    /\ heartbeats = 0
    /\ wire = {}
    /\ calls = <<>>
    /\ delivered = NoDelivery

\* new WebSocket(...) and the handlers of connect()
OpenTransport ==
    /\ FreeSlots # {}
    /\ ws' = NewSocket
    /\ socks' = Release([socks EXCEPT ![NewSocket] = "connecting"], NewSocket)

\* connect() called by the user of the client
Connect ==
    /\ UNCHANGED engineVars
    /\ OpenTransport
    /\ UNCHANGED <<requestId, callbacks, subscriptions, reconnectAttempts, rcTimers,
                   rcHandleLive, reconnectDelay, heartbeats, wire, calls,
                   delivered>>

\* the reconnect timer of handleReconnection fires: this.connect()
ReconnectFire ==
    /\ UNCHANGED engineVars
    /\ rcTimers > 0
    /\ OpenTransport
    /\ rcTimers' = rcTimers - 1
    /\ \/ rcHandleLive /\ rcHandleLive' = FALSE
       \/ rcTimers > (IF rcHandleLive THEN 1 ELSE 0) /\ rcHandleLive' = rcHandleLive
    /\ UNCHANGED <<requestId, callbacks, subscriptions, reconnectAttempts,
                   reconnectDelay, heartbeats, wire, calls, delivered>>

\* ws.onopen: reset the counter, startHeartbeat()
SocketOpen(s) ==
    /\ UNCHANGED engineVars
    /\ socks[s] = "connecting"
    /\ heartbeats < MaxHeartbeats
    /\ socks' = [socks EXCEPT ![s] = "open"]
    /\ reconnectAttempts' = 0
    /\ heartbeats' = heartbeats + 1
    /\ UNCHANGED <<ws, requestId, callbacks, subscriptions, rcTimers, rcHandleLive,
                   reconnectDelay, wire, calls,
                   delivered>>

\* a back-off that grows by 2 s per attempt
LinearDelay(n) == n * 2000

\* Math.pow(2, this.reconnectAttempts) * 1000
BackoffDelay(n) == Pow(2, n) * 1000

\* handleReconnection(): the successor values of the reconnection state
ScheduleReconnect == reconnectAttempts < maxReconnectAttempts

\* ws.onclose of socket s (after an error, a remote close or ws.close())
SocketClose(s) ==
    /\ UNCHANGED engineVars
    /\ socks[s] \in {"connecting", "open", "closing"}
    /\ socks' = Release([socks EXCEPT ![s] = "closed"], ws)
    /\ wire' = {w \in wire : w.sock # s}
    /\ IF ScheduleReconnect
         THEN /\ rcTimers < MaxTimers
              /\ reconnectAttempts' = reconnectAttempts + 1
              /\ rcTimers' = rcTimers + 1
              /\ rcHandleLive' = TRUE
              /\ reconnectDelay' = BackoffDelay(reconnectAttempts + 1)
         ELSE UNCHANGED <<reconnectAttempts, rcTimers, rcHandleLive, reconnectDelay>>
    /\ UNCHANGED <<ws, requestId, callbacks, subscriptions, heartbeats, calls, delivered>>

\* a disconnect() that leaves the subscription table as it is
DisconnectKeepsHandlers ==
    /\ UNCHANGED engineVars
    /\ IF rcHandleLive
         THEN rcTimers' = rcTimers - 1 /\ rcHandleLive' = FALSE
         ELSE UNCHANGED <<rcTimers, rcHandleLive>>
    /\ callbacks' = EmptyMap
    /\ subscriptions' = subscriptions
    /\ IF ws # 0
         THEN socks' = Release([socks EXCEPT ![ws] =
                          IF @ \in {"connecting", "open"} THEN "closing" ELSE @], 0)
         ELSE socks' = socks
    /\ ws' = 0
    /\ wire' = {w \in wire : w.sock # ws}
    /\ UNCHANGED <<requestId, reconnectAttempts, reconnectDelay, heartbeats, calls,
                   delivered>>

\* disconnect()
Disconnect ==
    /\ UNCHANGED engineVars
    /\ IF rcHandleLive
         THEN rcTimers' = rcTimers - 1 /\ rcHandleLive' = FALSE
         ELSE UNCHANGED <<rcTimers, rcHandleLive>>
    /\ callbacks' = EmptyMap
    /\ subscriptions' = EmptyMap
    /\ IF ws # 0
         THEN socks' = Release([socks EXCEPT ![ws] =
                          IF @ \in {"connecting", "open"} THEN "closing" ELSE @], 0)
         ELSE socks' = socks
    /\ ws' = 0
    /\ wire' = {w \in wire : w.sock # ws}
    /\ UNCHANGED <<requestId, reconnectAttempts, reconnectDelay, heartbeats, calls,
                   delivered>>

\* send(data) on an open transport: the changes to the client's state
StaleSend(kind) ==
    /\ requestId' = requestId
    /\ callbacks' = MapSet(callbacks, requestId, Len(calls) + 1)
    /\ calls' = Append(calls, [id |-> requestId, state |-> "pending", doneBy |-> 0])
    /\ wire' = wire \cup {[id |-> requestId, kind |-> kind, sock |-> ws]}

Send(kind) ==
    /\ requestId' = requestId + 1
    /\ callbacks' = MapSet(callbacks, requestId, Len(calls) + 1)
    /\ calls' = Append(calls, [id |-> requestId, state |-> "pending", doneBy |-> 0])
    /\ wire' = wire \cup {[id |-> requestId, kind |-> kind, sock |-> ws]}

\* a call such as getBalance() or getProposal(): send, rejected when not connected
Call(kind) ==
    /\ UNCHANGED engineVars
    /\ requestId <= MaxReq
    /\ IF WsOpen THEN Send(kind) ELSE UNCHANGED <<requestId, callbacks, calls, wire>>
    /\ UNCHANGED <<ws, socks, subscriptions, reconnectAttempts, rcTimers, rcHandleLive,
                   reconnectDelay,
                   heartbeats,
                   delivered>>

\* subscribeToTicks / subscribeToBalance / subscribeToPortfolio with handler h
Subscribe(ch, h) ==
    /\ UNCHANGED engineVars
    /\ requestId <= MaxReq
    /\ subscriptions' = MapSet(subscriptions, ch, h)
    /\ IF WsOpen THEN Send(SubscribeRequest(ch))
                 ELSE UNCHANGED <<requestId, callbacks, calls, wire>>
    /\ UNCHANGED <<ws, socks, reconnectAttempts, rcTimers, rcHandleLive,
                   reconnectDelay,
                   heartbeats,
                   delivered>>

\* one tick of a keep-alive interval of startHeartbeat()
HeartbeatTick ==
    /\ UNCHANGED engineVars
    /\ heartbeats > 0
    /\ IF WsOpen
         THEN /\ requestId <= MaxReq
              /\ Send("ping")
              /\ heartbeats' = heartbeats
         ELSE /\ heartbeats' = heartbeats - 1
              /\ UNCHANGED <<requestId, callbacks, calls, wire>>
    /\ UNCHANGED <<ws, socks, subscriptions, reconnectAttempts, rcTimers, rcHandleLive,
                   reconnectDelay,
                   delivered>>

\* handleMessage(data)
ToHandler(m) == m.msg_type \in Channels /\ m.msg_type \in DOMAIN subscriptions

\* a dispatch that hands the push to a handler that is not the registered one
ReplacedHandler(ch) == CHOOSE h \in Handlers : h # subscriptions[ch]

\* this.subscriptions.get(kind)
HandlerFor(ch) == subscriptions[ch]

HandleMessage(m) ==
    IF ToHandler(m)
      THEN /\ delivered' = [ch |-> m.msg_type, h |-> HandlerFor(m.msg_type)]
           /\ UNCHANGED <<callbacks, calls>>
      ELSE /\ delivered' = delivered
           /\ IF m.req_id # 0 /\ m.req_id \in DOMAIN callbacks
                THEN /\ callbacks' = MapDel(callbacks, m.req_id)
                     /\ calls' = [calls EXCEPT ![callbacks[m.req_id]] =
                                    [@ EXCEPT !.state = IF m.error THEN "failed" ELSE "resolved",
                                              !.doneBy = m.req_id]]
                ELSE UNCHANGED <<callbacks, calls>>

\* ws.onmessage: the venue answers request w (with or without an error payload)
Reply(w, err) ==
    /\ UNCHANGED engineVars
    /\ w \in wire
    /\ socks[w.sock] = "open"
    /\ wire' = wire \ {w}
    /\ HandleMessage([msg_type |-> ReplyType(w.kind), req_id |-> w.id, error |-> err])
    /\ UNCHANGED <<ws, socks, requestId, subscriptions, reconnectAttempts, rcTimers,
                   rcHandleLive, reconnectDelay, heartbeats>>

\* ws.onmessage: the venue pushes an unsolicited message of a channel kind
Push(ch) ==
    /\ UNCHANGED engineVars
    /\ \E s \in Sockets : socks[s] = "open"
    /\ HandleMessage([msg_type |-> ch, req_id |-> 0, error |-> FALSE])
    /\ UNCHANGED <<ws, socks, requestId, subscriptions, reconnectAttempts, rcTimers,
                   rcHandleLive, reconnectDelay, heartbeats, wire>>

\* a 30 s timer that rejects the call and leaves its pending entry in place
LeakyTimeout(c) ==
    /\ UNCHANGED engineVars
    /\ c \in DOMAIN calls
    /\ calls[c].state = "pending"
    /\ calls[c].id \in DOMAIN callbacks
    /\ calls' = [calls EXCEPT ![c] = [@ EXCEPT !.state = "timeout"]]
    /\ UNCHANGED <<ws, socks, requestId, callbacks, subscriptions, reconnectAttempts,
                   rcTimers, rcHandleLive, reconnectDelay, heartbeats, wire,
                   delivered>>

\* the 30 s timer of send() for call c
Timeout(c) ==
    /\ UNCHANGED engineVars
    /\ c \in DOMAIN calls
    /\ calls[c].state = "pending"
    /\ calls[c].id \in DOMAIN callbacks
    /\ callbacks' = MapDel(callbacks, calls[c].id)
    /\ calls' = [calls EXCEPT ![c] = [@ EXCEPT !.state = "timeout"]]
    /\ UNCHANGED <<ws, socks, requestId, subscriptions, reconnectAttempts, rcTimers,
                   rcHandleLive, reconnectDelay, heartbeats, wire,
                   delivered>>

(***************************************************************************)
(* TradingEngine                                                           *)
(***************************************************************************)
LoopIds == 1..MaxLoops
Sides == {"higher", "lower"}
Other(side) == IF side = "higher" THEN "lower" ELSE "higher"

\* TradeConfig values handed to startAutoTrading (stake, multiplier, barriers in tenths)
Configs == {[stake |-> 1, martingaleMultiplier |-> 2,
             positiveBarrier |-> 5, negativeBarrier |-> 5],
            [stake |-> 1, martingaleMultiplier |-> 12,
             positiveBarrier |-> 0, negativeBarrier |-> -500]}

\* balances reported by the venue
Balances == {3, 40}

\* settlement events (profit, won) delivered to updateTradeResult
Results == {[profit |-> 1, won |-> TRUE], [profit |-> -1, won |-> FALSE]}

NoAccount == [present |-> FALSE, balance |-> 0, lockedBalance |-> 0, availableBalance |-> 0]
NoMarket == [present |-> FALSE, symbol |-> "", currentPrice |-> 0,
             minBarrier |-> 0, maxBarrier |-> 0]
\* MARKET_CONFIGS.R_10 in tenths: minBarrier 0.1, maxBarrier 10.0
MarketR10 == [present |-> TRUE, symbol |-> "R_10", currentPrice |-> 0,
              minBarrier |-> 1, maxBarrier |-> 100]
\* MARKET_CONFIGS.R_25 in tenths: minBarrier 0.1, maxBarrier 25.0
MarketR25 == [present |-> TRUE, symbol |-> "R_25", currentPrice |-> 0,
              minBarrier |-> 1, maxBarrier |-> 250]

\* the markets the user chooses from, and the MarketData setMarket installs
Symbols == {"R_10", "R_25"}
MarketData(symbol) == IF symbol = "R_10" THEN MarketR10 ELSE MarketR25

\* data.tick.quote of the tick pushes
Quotes == {1, 2}
\* amounts handed to setLockedBalance
LockAmounts == {0, 2}
\* the calls initialize() and setMarket() await
InitCalls == {"authorize", "balance"}
MarketCalls == {"contracts_for", "ticks"}
\* the callbacks the engine hands to subscribeToBalance and subscribeToTicks
EngineHandler == 1

IdleLoop == [pc |-> "none", stake |-> 0, atLosses |-> 0,
             higher |-> "idle", lower |-> "idle"]

\* no copy of TradingState was handed out yet
NoSnapshot == [taken |-> FALSE, isConnected |-> FALSE, isTrading |-> FALSE,
               totalProfit |-> 0, totalLoss |-> 0, consecutiveLosses |-> 0,
               accountShared |-> FALSE, account |-> NoAccount,
               marketShared |-> FALSE, market |-> NoMarket]

\* no executeTradePair call was made outside the trading loop
NoCall == [pc |-> "none", error |-> "none", stake |-> 0, atLosses |-> 0,
           positiveBarrier |-> 0, negativeBarrier |-> 0,
           higher |-> "idle", lower |-> "idle"]

Min(a, b) == IF a <= b THEN a ELSE b
Max(a, b) == IF a >= b THEN a ELSE b
Abs(a) == IF a < 0 THEN -a ELSE a

(***************************************************************************)
(* RiskCalculator: pure functions of numbers.  A number is the exact       *)
(* fraction <<numerator, denominator>> in lowest terms, with a positive    *)
(* denominator and a numerator that is not negative.                       *)
(***************************************************************************)
RECURSIVE Gcd(_, _)
Gcd(a, b) == IF b = 0 THEN a ELSE Gcd(b, a % b)

Frac(n, d) == LET g == Gcd(n, d) IN <<n \div g, d \div g>>
Whole(n) == <<n, 1>>

Plus(x, y) == Frac(x[1] * y[2] + y[1] * x[2], x[2] * y[2])
Times(x, y) == Frac(x[1] * y[1], x[2] * y[2])
Over(x, y) == Frac(x[1] * y[2], x[2] * y[1])
AtMost(x, y) == x[1] * y[2] <= y[1] * x[2]
Least(x, y) == IF AtMost(x, y) THEN x ELSE y
Greatest(x, y) == IF AtMost(y, x) THEN x ELSE y

\* Math.pow(x, n) for a count n
RECURSIVE Power(_, _)
Power(x, n) == IF n = 0 THEN Whole(1) ELSE Times(x, Power(x, n - 1))

\* parseFloat(x.toFixed(2)): x rounded to the nearest hundredth, a half going up
ToFixed2(x) == Frac((200 * x[1] + x[2]) \div (2 * x[2]), 100)

\* the amounts, percentages, multipliers and base stakes the calculator is asked about
AvailableBalances == {Whole(0), Whole(1), Frac(139, 100), Frac(140, 100),
                      Frac(143, 100), Whole(100), Whole(10000), Whole(30000)}
RiskPercentages == {0, 1, 50, 100}
Multipliers == {Frac(1, 2), Whole(1), Frac(3, 2), Whole(2), Whole(3)}
BaseStakes == {Whole(0), Frac(35, 100), Whole(1), Frac(5, 2)}

\* the loop of calculateMartingaleSequenceRisk, entered for level i
RECURSIVE SequenceRisk(_, _, _, _, _, _)
SequenceRisk(baseStake, multiplier, maxLevels, i, totalRisk, currentStake) ==
    IF i > maxLevels
      THEN totalRisk
      ELSE LET total == Plus(totalRisk, currentStake)
               stake == Times(currentStake, multiplier)
           IN  IF ~AtMost(stake, Times(baseStake, Whole(32)))
                 THEN total
                 ELSE SequenceRisk(baseStake, multiplier, maxLevels, i + 1,
                                   total, stake)

CalculateMartingaleSequenceRisk(baseStake, multiplier, maxLevels) ==
    SequenceRisk(baseStake, multiplier, maxLevels, 0, Whole(0), baseStake)

CalculateRecommendedStake(availableBalance, riskPercentage, martingaleMultiplier) ==
    LET riskAmount == Over(Times(availableBalance, Whole(riskPercentage)), Whole(100))
        martingaleSequenceRisk ==
            CalculateMartingaleSequenceRisk(Whole(1), martingaleMultiplier, 5)
        recommendedStake == Over(riskAmount, Times(martingaleSequenceRisk, Whole(2)))
        minStake == Frac(35, 100)
        maxStake == Least(Whole(2000), Over(availableBalance, Whole(4)))
        finalStake == Greatest(minStake, Least(maxStake, recommendedStake))
    IN  [recommendedStake |-> ToFixed2(finalStake),
         maxRisk |-> riskAmount,
         availableBalance |-> availableBalance,
         riskPercentage |-> riskPercentage,
         canTrade |-> AtMost(Times(finalStake, Whole(2)), availableBalance)]

\* calculateMartingaleStake without the Math.min against baseStake * maxMultiplier
UncappedMartingaleStake(baseStake, losses, multiplier, maxMultiplier) ==
    IF losses = 0
      THEN baseStake
      ELSE Times(baseStake, Power(multiplier, losses))

CalculateMartingaleStake(baseStake, losses, multiplier, maxMultiplier) ==
    IF losses = 0
      THEN baseStake
      ELSE LET martingaleStake == Times(baseStake, Power(multiplier, losses))
           IN  Least(martingaleStake, Times(baseStake, Whole(maxMultiplier)))

\* RiskCalculator.canExecuteTrade(accountInfo, config, consecutiveLosses)
RiskCanExecuteTrade(account, config, losses) ==
    LET martingaleStake ==
            CalculateMartingaleStake(Whole(config.stake), losses,
                                     Whole(config.martingaleMultiplier),
                                     DefaultMaxMultiplier)
        totalRequiredStake == Times(martingaleStake, Whole(2))
    IN  AtMost(totalRequiredStake, Whole(account.availableBalance))

\* no RiskCalculator function was called
NoRiskCalc == [fn |-> "none", availableBalance |-> Whole(0), riskPercentage |-> 0,
               multiplier |-> Whole(1), baseStake |-> Whole(0),
               consecutiveLosses |-> 0, recommendedStake |-> Whole(0),
               maxRisk |-> Whole(0), canTrade |-> FALSE, stake |-> Whole(0)]

engineButRiskCalc == <<isConnected, isTrading, accountInfo, currentMarket,
                       tradeHistory, totalProfit, totalLoss, consecutiveLosses,
                       tradeTimeout, loops, lossRun, tradeConfig, streams,
                       initError, marketError, direct, snapshot>>

\* RiskCalculator.calculateRecommendedStake(accountInfo, riskPercentage, multiplier)
CallRecommendedStake(availableBalance, riskPercentage, multiplier) ==
    LET r == CalculateRecommendedStake(availableBalance, riskPercentage, multiplier)
    IN  /\ riskCalc' = [NoRiskCalc EXCEPT !.fn = "calculateRecommendedStake",
                                          !.availableBalance = r.availableBalance,
                                          !.riskPercentage = r.riskPercentage,
                                          !.multiplier = multiplier,
                                          !.recommendedStake = r.recommendedStake,
                                          !.maxRisk = r.maxRisk,
                                          !.canTrade = r.canTrade]
        /\ UNCHANGED <<apiVars, engineButRiskCalc>>

\* RiskCalculator.calculateMartingaleStake(baseStake, consecutiveLosses, multiplier)
CallMartingaleStake(baseStake, losses, multiplier) ==
    /\ riskCalc' = [NoRiskCalc EXCEPT !.fn = "calculateMartingaleStake",
                                      !.baseStake = baseStake,
                                      !.consecutiveLosses = losses,
                                      !.multiplier = multiplier,
                                      !.stake = CalculateMartingaleStake(
                                                    baseStake, losses, multiplier,
                                                    DefaultMaxMultiplier)]
    /\ UNCHANGED <<apiVars, engineButRiskCalc>>


EngineInit ==
    /\ isConnected = FALSE
    /\ isTrading = FALSE
    /\ accountInfo = NoAccount
    /\ currentMarket = NoMarket
    /\ tradeHistory = <<>>
    /\ totalProfit = 0
    /\ totalLoss = 0
    /\ consecutiveLosses = 0
    /\ tradeTimeout = 0
    /\ loops = [l \in LoopIds |-> IdleLoop]
    /\ lossRun = 0
    /\ tradeConfig \in Configs
    /\ streams = {}
    /\ initError = "none"
    /\ marketError = "none"
    /\ direct = NoCall
    /\ snapshot = NoSnapshot
    /\ riskCalc = NoRiskCalc

\* the escalated stake without the cap of calculateStakeWithMartingale
UncappedStake(config, n) ==
    IF n > 0 THEN config.stake * Pow(config.martingaleMultiplier, n) ELSE config.stake

\* calculateStakeWithMartingale(config) with the counter at value n
MartingaleStake(config, n) ==
    LET stake == IF n > 0
                   THEN config.stake * Pow(config.martingaleMultiplier, n)
                   ELSE config.stake
    IN  Min(stake, config.stake * StakeCap)

\* the counter calculateStakeWithMartingale reads
LossesRead(l) == consecutiveLosses

CalculateStakeWithMartingale(config) == MartingaleStake(config, consecutiveLosses)

\* a calculateBarriers that clamps the configured values as they are signed
SignedBarriers(config) ==
    IF ~currentMarket.present
      THEN [positiveBarrier |-> config.positiveBarrier,
            negativeBarrier |-> -Abs(config.negativeBarrier)]
      ELSE [positiveBarrier |->
                Max(currentMarket.minBarrier,
                    Min(currentMarket.maxBarrier, config.positiveBarrier)),
            negativeBarrier |->
                -Max(currentMarket.minBarrier,
                     Min(currentMarket.maxBarrier, config.negativeBarrier))]

\* calculateBarriers(positiveBarrier, negativeBarrier)
CalculateBarriers(config) ==
    IF ~currentMarket.present
      THEN [positiveBarrier |-> config.positiveBarrier,
            negativeBarrier |-> -Abs(config.negativeBarrier)]
      ELSE [positiveBarrier |->
                Max(currentMarket.minBarrier,
                    Min(currentMarket.maxBarrier, Abs(config.positiveBarrier))),
            negativeBarrier |->
                -Max(currentMarket.minBarrier,
                     Min(currentMarket.maxBarrier, Abs(config.negativeBarrier)))]

\* an affordability check that only asks for an account
AnyBalanceWillDo(config) == accountInfo.present

\* an affordability check that asks for the stake of one leg only
CanAffordOneLeg(config) ==
    /\ accountInfo.present
    /\ accountInfo.availableBalance >= CalculateStakeWithMartingale(config)

\* canExecuteTrade(config)
CanExecuteTrade(config) ==
    /\ accountInfo.present
    /\ accountInfo.availableBalance >= CalculateStakeWithMartingale(config) * 2

\* the copy once the engine has put a new object in place of the AccountInfo
\* or the MarketData it refers to: the copy keeps the object it was given
DetachAccount(snap) ==
    IF snap.accountShared
      THEN [snap EXCEPT !.accountShared = FALSE, !.account = accountInfo]
      ELSE snap

DetachMarket(snap) ==
    IF snap.marketShared
      THEN [snap EXCEPT !.marketShared = FALSE, !.market = currentMarket]
      ELSE snap

\* { ...this.tradingState }: the fields are copied, the AccountInfo and the
\* MarketData are the engine's own objects (tradeHistory is the engine's array)
ShallowCopy ==
    [taken |-> TRUE, isConnected |-> isConnected, isTrading |-> isTrading,
     totalProfit |-> totalProfit, totalLoss |-> totalLoss,
     consecutiveLosses |-> consecutiveLosses,
     accountShared |-> accountInfo.present, account |-> accountInfo,
     marketShared |-> currentMarket.present, market |-> currentMarket]

\* getTradingState(), and the copy notifyStateUpdate() hands to the callback
GetTradingState ==
    /\ UNCHANGED <<apiVars, tradeConfig, riskCalc, lossRun, streams, initError, marketError, direct>>
    /\ snapshot' = ShallowCopy
    /\ UNCHANGED <<isConnected, isTrading, accountInfo, currentMarket, tradeHistory,
                   totalProfit, totalLoss, consecutiveLosses, tradeTimeout, loops>>

\* the client's state that the engine's subscribe calls leave alone
apiButSubscriptions == <<ws, socks, requestId, callbacks, reconnectAttempts, rcTimers,
                         rcHandleLive, reconnectDelay, heartbeats, wire, calls,
                         delivered>>

\* initialize() when authorize and getBalance answer: the account is installed
\* and the balance handler is registered
Initialize(b) ==
    /\ UNCHANGED <<apiButSubscriptions, tradeConfig, riskCalc, lossRun, streams, marketError, direct>>
    /\ snapshot' = DetachAccount(snapshot)
    /\ accountInfo' = [present |-> TRUE, balance |-> b, lockedBalance |-> 0,
                       availableBalance |-> b]
    /\ isConnected' = TRUE
    /\ subscriptions' = MapSet(subscriptions, "balance", EngineHandler)
    /\ initError' = "none"
    /\ UNCHANGED <<isTrading, currentMarket, tradeHistory, totalProfit, totalLoss,
                   consecutiveLosses, tradeTimeout, loops>>

\* an initialize() that marks the session connected before its calls answer
InitializeFailsConnected(call) ==
    /\ UNCHANGED <<apiVars, tradeConfig, riskCalc, lossRun, streams, marketError, direct,
                   snapshot>>
    /\ initError' = call
    /\ isConnected' = TRUE
    /\ UNCHANGED <<isTrading, accountInfo, currentMarket, tradeHistory,
                   totalProfit, totalLoss, consecutiveLosses, tradeTimeout, loops>>

\* initialize() when authorize or getBalance is rejected: the error is thrown
InitializeFails(call) ==
    /\ UNCHANGED <<apiVars, tradeConfig, riskCalc, lossRun, streams, marketError, direct,
                   snapshot>>
    /\ initError' = call
    /\ UNCHANGED <<isConnected, isTrading, accountInfo, currentMarket, tradeHistory,
                   totalProfit, totalLoss, consecutiveLosses, tradeTimeout, loops>>

\* an available balance that leaves the locked amount out
IgnoresLock(balance, locked) == balance

\* balance - lockedBalance
AvailableBalance(balance, locked) == balance - locked

\* the balance handler registered by initialize()
BalancePush(b) ==
    /\ UNCHANGED <<apiVars, tradeConfig, riskCalc, lossRun, sessionVars>>
    /\ "balance" \in DOMAIN subscriptions
    /\ IF accountInfo.present
         THEN accountInfo' = [accountInfo EXCEPT !.balance = b,
                  !.availableBalance = AvailableBalance(b, accountInfo.lockedBalance)]
         ELSE accountInfo' = accountInfo
    /\ UNCHANGED <<isConnected, isTrading, currentMarket, tradeHistory, totalProfit,
                   totalLoss, consecutiveLosses, tradeTimeout, loops>>

\* setLockedBalance(amount)
SetLockedBalance(amount) ==
    /\ UNCHANGED <<apiVars, tradeConfig, riskCalc, lossRun, sessionVars>>
    /\ IF accountInfo.present
         THEN accountInfo' = [accountInfo EXCEPT !.lockedBalance = amount,
                  !.availableBalance = AvailableBalance(accountInfo.balance, amount)]
         ELSE accountInfo' = accountInfo
    /\ UNCHANGED <<isConnected, isTrading, currentMarket, tradeHistory, totalProfit,
                   totalLoss, consecutiveLosses, tradeTimeout, loops>>

\* setMarket(symbol, marketConfig) when getContractsFor and subscribeToTicks
\* answer: the MarketData is installed and the tick handler registered
SetMarket(symbol) ==
    /\ UNCHANGED <<apiButSubscriptions, tradeConfig, riskCalc, lossRun, initError, direct>>
    /\ snapshot' = DetachMarket(snapshot)
    /\ currentMarket' = MarketData(symbol)
    /\ subscriptions' = MapSet(subscriptions, "tick", EngineHandler)
    /\ streams' = streams \cup {symbol}
    /\ marketError' = "none"
    /\ UNCHANGED <<isConnected, isTrading, accountInfo, tradeHistory, totalProfit,
                   totalLoss, consecutiveLosses, tradeTimeout, loops>>

\* a setMarket that installs the MarketData and the handler before it asks the
\* venue for the contracts of the symbol
SetMarketFailsInstalled(symbol, call) ==
    /\ UNCHANGED <<apiButSubscriptions, tradeConfig, riskCalc, lossRun, initError, streams, direct>>
    /\ marketError' = call
    /\ currentMarket' = MarketData(symbol)
    /\ subscriptions' = MapSet(subscriptions, "tick", EngineHandler)
    /\ snapshot' = DetachMarket(snapshot)
    /\ UNCHANGED <<isConnected, isTrading, accountInfo, tradeHistory, totalProfit,
                   totalLoss, consecutiveLosses, tradeTimeout, loops>>

\* setMarket(symbol, marketConfig) when getContractsFor is rejected (nothing is
\* installed) or subscribeToTicks is rejected (the MarketData and the handler
\* are in place already); the error is thrown
SetMarketFails(symbol, call) ==
    /\ UNCHANGED <<apiButSubscriptions, tradeConfig, riskCalc, lossRun, initError, streams, direct>>
    /\ marketError' = call
    /\ IF call = "ticks"
         THEN /\ currentMarket' = MarketData(symbol)
              /\ subscriptions' = MapSet(subscriptions, "tick", EngineHandler)
              /\ snapshot' = DetachMarket(snapshot)
         ELSE UNCHANGED <<currentMarket, subscriptions, snapshot>>
    /\ UNCHANGED <<isConnected, isTrading, accountInfo, tradeHistory, totalProfit,
                   totalLoss, consecutiveLosses, tradeTimeout, loops>>

\* the tick handler registered by setMarket, given a tick of a stream of the venue
TickPush(symbol, quote) ==
    /\ UNCHANGED <<apiVars, tradeConfig, riskCalc, lossRun, sessionVars>>
    /\ symbol \in streams
    /\ "tick" \in DOMAIN subscriptions
    /\ IF currentMarket.present
         THEN currentMarket' = [currentMarket EXCEPT !.currentPrice = quote]
         ELSE currentMarket' = currentMarket
    /\ UNCHANGED <<isConnected, isTrading, accountInfo, tradeHistory, totalProfit,
                   totalLoss, consecutiveLosses, tradeTimeout, loops>>

\* a closure slot that holds neither a loop nor a leg still in flight
FreeLoop(l) == loops[l].pc = "none" /\ loops[l].higher = "idle" /\ loops[l].lower = "idle"
NewLoop == CHOOSE l \in LoopIds : FreeLoop(l) /\ \A k \in LoopIds : FreeLoop(k) => l <= k

\* clearTimeout(this.tradeTimeout) of stopAutoTrading() applied to the loops lp
ClearTradeTimeout(lp) ==
    [l \in LoopIds |-> IF l = tradeTimeout /\ lp[l].pc = "timer" THEN IdleLoop ELSE lp[l]]

\* trade pairs being executed
InFlight == {l \in LoopIds : loops[l].pc = "exec"}

\* executeNextTrade() of loop l with config cfg up to its first await; lp are the
\* loops and tt the timer handle when it is entered with isTrading true
ExecuteNextTrade(l, cfg, lp, tt) ==
    IF ~CanExecuteTrade(cfg) \/ ~currentMarket.present
      THEN \* stopAutoTrading(), directly or from the catch block
           /\ isTrading' = FALSE
           /\ tradeTimeout' = 0
           /\ loops' = [k \in LoopIds |->
                          IF k = l \/ (k = tt /\ lp[k].pc = "timer") THEN IdleLoop ELSE lp[k]]
      ELSE \* executeTradePair: both legs request their price proposal
           /\ Len(tradeHistory) + Cardinality(InFlight) < MaxPairs
           /\ isTrading' = TRUE
           /\ tradeTimeout' = tt
           /\ loops' = [lp EXCEPT ![l] =
                          [pc |-> "exec",
                           stake |-> MartingaleStake(cfg, LossesRead(l)),
                           atLosses |-> consecutiveLosses,
                           higher |-> "proposal", lower |-> "proposal"]]

\* a startAutoTrading that never refuses
NeverRefuses == FALSE

\* "Trading is already active": startAutoTrading throws
AlreadyTrading == isTrading

\* startAutoTrading(config)
StartAutoTrading ==
    /\ UNCHANGED <<apiVars, tradeConfig, riskCalc, lossRun, sessionVars>>
    /\ IF AlreadyTrading
         THEN UNCHANGED <<isTrading, tradeTimeout, loops>>
         ELSE /\ \E l \in LoopIds : FreeLoop(l)
              /\ ExecuteNextTrade(NewLoop, tradeConfig, loops, tradeTimeout)
    /\ UNCHANGED <<isConnected, accountInfo, currentMarket, tradeHistory, totalProfit,
                   totalLoss, consecutiveLosses>>

\* stopAutoTrading()
StopAutoTrading ==
    /\ UNCHANGED <<apiVars, tradeConfig, riskCalc, lossRun, sessionVars>>
    /\ isTrading' = FALSE
    /\ tradeTimeout' = 0
    /\ loops' = ClearTradeTimeout(loops)
    /\ UNCHANGED <<isConnected, accountInfo, currentMarket, tradeHistory, totalProfit,
                   totalLoss, consecutiveLosses>>

\* disconnect() of the engine: stopAutoTrading(), then isConnected = false
EngineDisconnect ==
    /\ UNCHANGED <<apiVars, tradeConfig, riskCalc, lossRun, sessionVars>>
    /\ isTrading' = FALSE
    /\ tradeTimeout' = 0
    /\ loops' = ClearTradeTimeout(loops)
    /\ isConnected' = FALSE
    /\ UNCHANGED <<accountInfo, currentMarket, tradeHistory, totalProfit, totalLoss,
                   consecutiveLosses>>

\* the timer set by executeNextTrade fires: executeNextTrade()
TimerFire(l) ==
    /\ UNCHANGED <<apiVars, tradeConfig, riskCalc, lossRun, sessionVars>>
    /\ loops[l].pc = "timer"
    /\ LET tt == IF tradeTimeout = l THEN 0 ELSE tradeTimeout
       IN  IF ~isTrading
             THEN /\ loops' = [loops EXCEPT ![l] = IdleLoop]
                  /\ tradeTimeout' = tt
                  /\ isTrading' = isTrading
             ELSE ExecuteNextTrade(l, tradeConfig, loops, tt)
    /\ UNCHANGED <<isConnected, accountInfo, currentMarket, tradeHistory, totalProfit,
                   totalLoss, consecutiveLosses>>

\* the TradePair executeTradePair builds from loop l once both buys succeeded
NewTrade(l, side, cid) ==
    [type |-> side, stake |-> loops[l].stake,
     barrier |-> IF side = "higher" THEN CalculateBarriers(tradeConfig).positiveBarrier
                                    ELSE CalculateBarriers(tradeConfig).negativeBarrier,
     status |-> "active", profit |-> 0, contractId |-> cid]

NewPair(l) ==
    [higherTrade |-> NewTrade(l, "higher", 2 * Len(tradeHistory) + 1),
     lowerTrade |-> NewTrade(l, "lower", 2 * Len(tradeHistory) + 2),
     totalStake |-> loops[l].stake * 2,
     \* totalProfit?: the property is absent until the pair completes
     hasTotalProfit |-> FALSE, totalProfit |-> 0, status |-> "active",
     atLosses |-> loops[l].atLosses]

\* tradeHistory after the pair of loop l was placed
RecordPair(l) == <<NewPair(l)>> \o tradeHistory

\* tradeHistory had the catch block kept the attempted pair
KeepsAttemptedPair(l) == <<NewPair(l)>> \o tradeHistory

\* tradeHistory after executeTradePair of loop l failed
FailedPair(l) == tradeHistory

\* a venue call of a leg of loop l resolves: the proposal, then the buy
LegOk(l, side) ==
    /\ UNCHANGED <<apiVars, tradeConfig, riskCalc, lossRun, sessionVars>>
    /\ loops[l][side] \in {"proposal", "buy"}
    /\ IF loops[l][side] = "proposal"
         THEN \* executeSingleTrade goes on to buyContract
              /\ loops' = [loops EXCEPT ![l][side] = "buy"]
              /\ UNCHANGED <<tradeHistory, tradeTimeout>>
         ELSE IF loops[l].pc = "exec" /\ loops[l][Other(side)] = "done"
           THEN \* Promise.all resolves: the pair is recorded, the next timer set
                /\ tradeHistory' = RecordPair(l)
                /\ loops' = [loops EXCEPT ![l] =
                               [IdleLoop EXCEPT !.pc = "timer"]]
                /\ tradeTimeout' = l
           ELSE /\ loops' = [loops EXCEPT ![l][side] =
                               IF loops[l].pc = "exec" THEN "done" ELSE "idle"]
                /\ UNCHANGED <<tradeHistory, tradeTimeout>>
    /\ UNCHANGED <<isConnected, isTrading, accountInfo, currentMarket, totalProfit,
                   totalLoss, consecutiveLosses>>

\* a venue call of a leg of loop l is rejected (error reply, timeout, no transport)
LegFail(l, side) ==
    /\ UNCHANGED <<apiVars, tradeConfig, riskCalc, lossRun, sessionVars>>
    /\ loops[l][side] \in {"proposal", "buy"}
    /\ IF loops[l].pc = "exec"
         THEN \* Promise.all rejects, executeNextTrade catches: stopAutoTrading()
              /\ isTrading' = FALSE
              /\ tradeTimeout' = 0
              /\ tradeHistory' = FailedPair(l)
              /\ loops' = [ClearTradeTimeout(loops) EXCEPT ![l] =
                             [IdleLoop EXCEPT ![Other(side)] =
                                IF loops[l][Other(side)] = "done"
                                  THEN "idle" ELSE loops[l][Other(side)]]]
         ELSE /\ loops' = [loops EXCEPT ![l][side] = "idle"]
              /\ UNCHANGED <<isTrading, tradeTimeout, tradeHistory>>
    /\ UNCHANGED <<isConnected, accountInfo, currentMarket, totalProfit, totalLoss,
                   consecutiveLosses>>

\* TradeConfig values handed to executeTradePair: barriers of either sign,
\* inside the market's limits, below them and above them (tenths)
PairConfigs == {[stake |-> 1, martingaleMultiplier |-> 2,
                 positiveBarrier |-> 5, negativeBarrier |-> 5],
                [stake |-> 1, martingaleMultiplier |-> 2,
                 positiveBarrier |-> -5, negativeBarrier |-> -5],
                [stake |-> 1, martingaleMultiplier |-> 2,
                 positiveBarrier |-> 0, negativeBarrier |-> -500],
                [stake |-> 1, martingaleMultiplier |-> 2,
                 positiveBarrier |-> -500, negativeBarrier |-> 0]}

\* a readiness test that lets every call go on to the venue
NeverNotReady == FALSE

\* "Market or account info not available": executeTradePair throws
NotReady == ~currentMarket.present \/ ~accountInfo.present

\* the two Trade objects and the TradePair of the call once both buys succeeded
DirectTrade(side, cid) ==
    [type |-> side, stake |-> direct.stake,
     barrier |-> IF side = "higher" THEN direct.positiveBarrier
                                    ELSE direct.negativeBarrier,
     status |-> "active", profit |-> 0, contractId |-> cid]

DirectPair ==
    [higherTrade |-> DirectTrade("higher", 2 * Len(tradeHistory) + 1),
     lowerTrade |-> DirectTrade("lower", 2 * Len(tradeHistory) + 2),
     totalStake |-> direct.stake * 2,
     hasTotalProfit |-> FALSE, totalProfit |-> 0, status |-> "active",
     atLosses |-> direct.atLosses]

\* the call as it stands when both legs have requested their price proposal
Submitted(config) ==
    [pc |-> "exec", error |-> "none",
     stake |-> CalculateStakeWithMartingale(config),
     atLosses |-> consecutiveLosses,
     positiveBarrier |-> CalculateBarriers(config).positiveBarrier,
     negativeBarrier |-> CalculateBarriers(config).negativeBarrier,
     higher |-> "proposal", lower |-> "proposal"]

\* executeTradePair(config) called by the user of the engine, up to its await:
\* it throws when not ready, else both legs request their price proposal
ExecuteTradePair(config) ==
    /\ UNCHANGED <<apiVars, tradeConfig, riskCalc, lossRun, streams, initError, marketError,
                   snapshot>>
    /\ direct.pc # "exec"
    /\ IF NotReady
         THEN direct' = [NoCall EXCEPT !.pc = "failed", !.error = "NotReady",
                                       !.higher = direct.higher, !.lower = direct.lower]
         ELSE /\ Len(tradeHistory) < MaxPairs
              /\ direct' = Submitted(config)
    /\ UNCHANGED <<isConnected, isTrading, accountInfo, currentMarket, tradeHistory,
                   totalProfit, totalLoss, consecutiveLosses, tradeTimeout, loops>>

\* a pair added at the end of the history
PushBack(pair, history) == Append(history, pair)

\* this.tradingState.tradeHistory.unshift(tradePair)
Unshift(pair, history) == <<pair>> \o history

\* a venue call of a leg of the user's executeTradePair resolves
DirectLegOk(side) ==
    /\ UNCHANGED <<apiVars, tradeConfig, riskCalc, lossRun, streams, initError, marketError,
                   snapshot>>
    /\ direct[side] \in {"proposal", "buy"}
    /\ IF direct[side] = "proposal"
         THEN \* executeSingleTrade goes on to buyContract
              /\ direct' = [direct EXCEPT ![side] = "buy"]
              /\ tradeHistory' = tradeHistory
         ELSE IF direct.pc = "exec" /\ direct[Other(side)] = "done"
           THEN \* Promise.all resolves: the pair is recorded and returned
                /\ tradeHistory' = Unshift(DirectPair, tradeHistory)
                /\ direct' = [direct EXCEPT !.pc = "returned",
                                            !.higher = "idle", !.lower = "idle"]
           ELSE \* the contract is bought; when the call has failed already
                \* nobody awaits this leg and its contract stays with the venue
                /\ direct' = [direct EXCEPT ![side] =
                                IF direct.pc = "exec" THEN "done" ELSE "held"]
                /\ tradeHistory' = tradeHistory
    /\ UNCHANGED <<isConnected, isTrading, accountInfo, currentMarket, totalProfit,
                   totalLoss, consecutiveLosses, tradeTimeout, loops>>

\* the identifier the venue gave the contract of a leg whose call failed: the
\* venue's identifiers are unique, so it is none of those of the recorded legs
SurvivorId(side) == IF side = "higher" THEN -1 ELSE -2

\* the pair a catch block would record for the leg that was bought
SurvivingPair(side) ==
    IF side = "higher"
      THEN [DirectPair EXCEPT !.higherTrade.contractId = SurvivorId(side),
                              !.lowerTrade.contractId = 0]
      ELSE [DirectPair EXCEPT !.lowerTrade.contractId = SurvivorId(side),
                              !.higherTrade.contractId = 0]

\* a catch block that records the pair of the leg that was bought
DirectLegFailRecords(side) ==
    /\ UNCHANGED <<apiVars, tradeConfig, riskCalc, lossRun, streams, initError, marketError,
                   snapshot>>
    /\ direct[side] \in {"proposal", "buy"}
    /\ IF direct.pc = "exec"
         THEN /\ direct' = [direct EXCEPT !.pc = "failed", !.error = "venue",
                               ![side] = "idle",
                               ![Other(side)] = IF @ = "done" THEN "held" ELSE @]
              /\ tradeHistory' = IF direct[Other(side)] = "done"
                                   THEN Unshift(SurvivingPair(Other(side)), tradeHistory)
                                   ELSE tradeHistory
         ELSE /\ direct' = [direct EXCEPT ![side] = "idle"]
              /\ tradeHistory' = tradeHistory
    /\ UNCHANGED <<isConnected, isTrading, accountInfo, currentMarket,
                   totalProfit, totalLoss, consecutiveLosses, tradeTimeout, loops>>

\* a venue call of a leg of the user's executeTradePair is rejected: Promise.all
\* rejects and the catch block rethrows; the other leg goes on by itself, and
\* the contract of a leg that was bought already stays with the venue
DirectLegFail(side) ==
    /\ UNCHANGED <<apiVars, tradeConfig, riskCalc, lossRun, streams, initError, marketError,
                   snapshot>>
    /\ direct[side] \in {"proposal", "buy"}
    /\ IF direct.pc = "exec"
         THEN direct' = [direct EXCEPT !.pc = "failed", !.error = "venue",
                            ![side] = "idle",
                            ![Other(side)] = IF @ = "done" THEN "held" ELSE @]
         ELSE direct' = [direct EXCEPT ![side] = "idle"]
    /\ UNCHANGED <<isConnected, isTrading, accountInfo, currentMarket, tradeHistory,
                   totalProfit, totalLoss, consecutiveLosses, tradeTimeout, loops>>

\* updateTradeResult(contractId, profit, won)
Matches(pair, contractId) ==
    pair.higherTrade.contractId = contractId \/ pair.lowerTrade.contractId = contractId

Settle(trade, contractId, r) ==
    IF trade.contractId = contractId
      THEN [trade EXCEPT !.profit = r.profit, !.status = IF r.won THEN "won" ELSE "lost"]
      ELSE trade

\* a completion test that is content with one settled leg
EitherCompleted(h, lw) == h.status # "active" \/ lw.status # "active"

BothCompleted(h, lw) == h.status # "active" /\ lw.status # "active"

\* a settlement that computes totalProfit at the completion only and keeps it
\* when a later event settles a leg again
SettlePairOnce(pair, contractId, r) ==
    LET h == Settle(pair.higherTrade, contractId, r)
        lw == Settle(pair.lowerTrade, contractId, r)
    IN  IF BothCompleted(h, lw) /\ pair.status # "completed"
          THEN [pair EXCEPT !.higherTrade = h, !.lowerTrade = lw,
                            !.status = "completed", !.hasTotalProfit = TRUE,
                            !.totalProfit = h.profit + lw.profit]
          ELSE [pair EXCEPT !.higherTrade = h, !.lowerTrade = lw]

SettlePair(pair, contractId, r) ==
    LET h == Settle(pair.higherTrade, contractId, r)
        lw == Settle(pair.lowerTrade, contractId, r)
    IN  IF BothCompleted(h, lw)
          THEN [pair EXCEPT !.higherTrade = h, !.lowerTrade = lw,
                            !.status = "completed", !.hasTotalProfit = TRUE,
                            !.totalProfit = h.profit + lw.profit]
          ELSE [pair EXCEPT !.higherTrade = h, !.lowerTrade = lw]

\* the pair's combined profit counts as a win when it is not negative
IsWinOrEven(p) == p >= 0

\* the pair's combined profit counts as a win
IsWin(p) == p > 0

\* the first pair of tradeHistory that holds contractId, 0 when none does
PairOf(contractId) ==
    IF \E i \in DOMAIN tradeHistory : Matches(tradeHistory[i], contractId)
      THEN CHOOSE j \in DOMAIN tradeHistory :
               /\ Matches(tradeHistory[j], contractId)
               /\ \A k \in 1..(j - 1) : ~Matches(tradeHistory[k], contractId)
      ELSE 0

UpdateTradeResult(contractId, r) ==
    /\ UNCHANGED <<apiVars, tradeConfig, riskCalc, sessionVars>>
    /\ IF PairOf(contractId) # 0
         THEN LET i == PairOf(contractId)
                  pair == SettlePair(tradeHistory[i], contractId, r)
              IN  /\ tradeHistory' = [tradeHistory EXCEPT ![i] = pair]
                  /\ IF BothCompleted(pair.higherTrade, pair.lowerTrade)
                       THEN IF IsWin(pair.totalProfit)
                              THEN /\ totalProfit' = totalProfit + pair.totalProfit
                                   /\ consecutiveLosses' = 0
                                   /\ totalLoss' = totalLoss
                              ELSE /\ totalLoss' = totalLoss + Abs(pair.totalProfit)
                                   /\ consecutiveLosses' = consecutiveLosses + 1
                                   /\ totalProfit' = totalProfit
                       ELSE UNCHANGED <<totalProfit, totalLoss, consecutiveLosses>>
                  /\ lossRun' = IF tradeHistory[i].status = "completed"
                                     \/ pair.status # "completed"
                                  THEN lossRun
                                  ELSE IF pair.totalProfit > 0 THEN 0 ELSE lossRun + 1
         ELSE UNCHANGED <<tradeHistory, totalProfit, totalLoss, consecutiveLosses, lossRun>>
    /\ totalProfit' <= MaxPnL /\ totalLoss' <= MaxPnL /\ consecutiveLosses' <= MaxLosses
    /\ UNCHANGED <<isConnected, isTrading, accountInfo, currentMarket, tradeTimeout, loops>>

\* contract identifiers the settlement feed reports: those of the recorded
\* legs, and 0 for a contract that no recorded leg holds
ContractIds == 0..(2 * Len(tradeHistory))

Next ==
    \/ \E b \in Balances : ~accountInfo.present /\ Initialize(b)
    \/ \E b \in Balances : BalancePush(b)
    \/ ~currentMarket.present /\ SetMarket("R_10")
    \/ StartAutoTrading
    \/ StopAutoTrading
    \/ \E l \in LoopIds : TimerFire(l)
    \/ \E l \in LoopIds, side \in Sides : LegOk(l, side)
    \/ \E l \in LoopIds, side \in Sides : LegFail(l, side)
    \/ \E c \in ContractIds, r \in Results : UpdateTradeResult(c, r)

Init == ApiInit /\ EngineInit

Spec == Init /\ [][Next]_vars

\* no WebSocket of the client is connecting or open
NoLiveSocket == \A s \in Sockets : socks[s] \notin {"connecting", "open"}

(***************************************************************************)
(* SpecApi: calls, subscriptions and inbound messages over a transport     *)
(* that the user opens and closes and that the venue may drop.  The        *)
(* reconnect timer and the keep-alive interval run in SpecConn, the        *)
(* venue's unsolicited pushes in SpecSub.                                  *)
(***************************************************************************)
\* the client on its own: the engine stays as constructed, with one TradeConfig
InitClient == Init /\ tradeConfig.martingaleMultiplier = 2

NextApi ==
    \/ NoLiveSocket /\ Connect
    \/ \E s \in Sockets : SocketOpen(s)
    \/ \E s \in Sockets : SocketClose(s)
    \/ Disconnect
    \/ \E k \in CallKinds : Call(k)
    \/ \E p \in Subscribers : Subscribe(p[1], p[2])
    \/ \E w \in wire, err \in BOOLEAN : Reply(w, err)
    \/ \E c \in 1..MaxReq : Timeout(c)

SpecApi == InitClient /\ [][NextApi]_vars

(***************************************************************************)
(* SpecConn: the connection life cycle: connect, open, close, the          *)
(* reconnection back-off, the keep-alive interval and disconnect.          *)
(***************************************************************************)
NextConn ==
    \/ NoLiveSocket /\ Connect
    \/ ReconnectFire
    \/ \E s \in Sockets : SocketOpen(s)
    \/ \E s \in Sockets : SocketClose(s)
    \/ Disconnect
    \/ HeartbeatTick

SpecConn == InitClient /\ [][NextConn]_vars

(***************************************************************************)
(* SpecSub: the subscriptions of the client and the messages the venue     *)
(* sends on its own: subscribe requests, their replies and time-outs,      *)
(* pushes of every channel kind, over a transport that is opened, closed   *)
(* and dropped.                                                            *)
(***************************************************************************)
NextSub ==
    \/ NoLiveSocket /\ Connect
    \/ \E s \in Sockets : SocketOpen(s)
    \/ \E s \in Sockets : SocketClose(s)
    \/ Disconnect
    \/ \E p \in Subscribers : Subscribe(p[1], p[2])
    \/ \E w \in wire, err \in BOOLEAN : Reply(w, err)
    \/ \E ch \in Channels : Push(ch)
    \/ \E c \in 1..MaxReq : Timeout(c)

SpecSub == InitClient /\ [][NextSub]_vars

(***************************************************************************)
(* SpecSession: the account and the market of the engine: initialize and   *)
(* setMarket with each of their outcomes, called any number of times,      *)
(* setLockedBalance, and the balance and tick pushes of the venue.         *)
(***************************************************************************)
NextSession ==
    \/ \E b \in Balances : Initialize(b)
    \/ \E call \in InitCalls : InitializeFails(call)
    \/ \E b \in Balances : BalancePush(b)
    \/ \E amount \in LockAmounts : SetLockedBalance(amount)
    \/ \E symbol \in Symbols : SetMarket(symbol)
    \/ \E symbol \in Symbols, call \in MarketCalls : SetMarketFails(symbol, call)
    \/ \E symbol \in Symbols, quote \in Quotes : TickPush(symbol, quote)
    \/ GetTradingState

SpecSession == InitClient /\ [][NextSession]_vars

(***************************************************************************)
(* SpecLife: the trading loop of Spec with one TradeConfig, and the        *)
(* engine's disconnect() called at any moment.                             *)
(***************************************************************************)
NextLife ==
    \/ Next
    \/ EngineDisconnect

SpecLife == InitClient /\ [][NextLife]_vars

(***************************************************************************)
(* SpecPair: executeTradePair called by the user of the engine, with       *)
(* barriers of either sign, before and after initialize and setMarket, and *)
(* the settlement events of the pairs it placed.                           *)
(***************************************************************************)
NextPair ==
    \/ \E b \in Balances : ~accountInfo.present /\ Initialize(b)
    \/ \E symbol \in Symbols : ~currentMarket.present /\ SetMarket(symbol)
    \/ \E config \in PairConfigs : ExecuteTradePair(config)
    \/ \E side \in Sides : DirectLegOk(side)
    \/ \E side \in Sides : DirectLegFail(side)
    \/ \E c \in ContractIds, r \in Results : UpdateTradeResult(c, r)
    \/ \E side \in Sides, r \in Results :
           direct[side] = "held" /\ UpdateTradeResult(SurvivorId(side), r)

SpecPair == InitClient /\ [][NextPair]_vars

(***************************************************************************)
(* SpecRisk: the RiskCalculator functions applied to balances, risk        *)
(* percentages, multipliers, base stakes and loss counts.                  *)
(***************************************************************************)
NextRisk ==
    \/ \E a \in AvailableBalances, r \in RiskPercentages, m \in Multipliers :
           CallRecommendedStake(a, r, m)
    \/ \E b \in BaseStakes, n \in 0..MaxStreak, m \in Multipliers :
           CallMartingaleStake(b, n, m)

SpecRisk == InitClient /\ [][NextRisk]_vars

(***************************************************************************)
(* SpecLedger: every operation of the engine around its profit and loss    *)
(* account: initialize, setMarket, setLockedBalance, the balance and tick  *)
(* pushes, executeTradePair and its venue replies, startAutoTrading,       *)
(* stopAutoTrading, disconnect and the settlement events.                  *)
(***************************************************************************)
NextLedger ==
    \/ \E b \in Balances : ~accountInfo.present /\ Initialize(b)
    \/ ~currentMarket.present /\ SetMarket("R_10")
    \/ \E b \in Balances : BalancePush(b)
    \/ \E amount \in LockAmounts : SetLockedBalance(amount)
    \/ TickPush("R_10", 1)
    \/ ExecuteTradePair(tradeConfig)
    \/ \E side \in Sides : DirectLegOk(side)
    \/ \E side \in Sides : DirectLegFail(side)
    \/ StartAutoTrading
    \/ StopAutoTrading
    \/ EngineDisconnect
    \/ \E c \in ContractIds, r \in Results : UpdateTradeResult(c, r)

SpecLedger == InitClient /\ [][NextLedger]_vars

(***************************************************************************)
(* C2: correlation identifiers are strictly increasing in the order the    *)
(* calls were made and never reused, every pending entry belongs to the    *)
(* call that was assigned its key, and a call is completed only by a       *)
(* reply that carries the identifier the call was assigned.                *)
(***************************************************************************)
CorrelationSound ==
    /\ \A i, j \in DOMAIN calls : i < j => calls[i].id < calls[j].id
    /\ \A k \in DOMAIN callbacks : calls[callbacks[k]].id = k
    /\ \A c \in DOMAIN calls : calls[c].doneBy \in {0, calls[c].id}

\* two calls outstanding together, the later one answered first
CorrelationWitness ==
    \E i, j \in DOMAIN calls :
        /\ i < j
        /\ calls[i].state = "pending" /\ calls[i].id \in DOMAIN callbacks
        /\ calls[j].state = "resolved" /\ calls[j].doneBy = calls[j].id

(***************************************************************************)
(* C3: an inbound message that carries the identifier of an outstanding    *)
(* call removes the pending entry and completes the call: resolved, or     *)
(* failed when the message carries an error payload.                       *)
(***************************************************************************)
ReplyCompletesCall ==
    [][\A w \in wire, err \in BOOLEAN :
          (Reply(w, err) /\ w.id \in DOMAIN callbacks) =>
              /\ w.id \notin DOMAIN callbacks'
              /\ calls'[callbacks[w.id]].state = (IF err THEN "failed" ELSE "resolved")]_vars

(***************************************************************************)
(* C4: while the client is closed by disconnect() (this.ws is null), no    *)
(* reconnect is scheduled and no transport is opened except by connect().  *)
(***************************************************************************)
DisconnectSuppressesReconnect ==
    [][ws = 0 => (rcTimers' <= rcTimers /\ (ws' # 0 => Connect))]_vars


(***************************************************************************)
(* C1: while auto-trading is stopped (stopAutoTrading has returned and     *)
(* startAutoTrading was not called again) no leg transmits a price or buy  *)
(* request and no pair is added to tradeHistory.                           *)
(***************************************************************************)
Transmits(l, side) ==
    /\ loops'[l][side] \in {"proposal", "buy"}
    /\ loops'[l][side] # loops[l][side]

StopHaltsSubmission ==
    [][(~isTrading /\ ~isTrading') =>
          /\ \A l \in LoopIds, side \in Sides : ~Transmits(l, side)
          /\ tradeHistory' = tradeHistory]_vars

(***************************************************************************)
(* C5: an updateTradeResult call for a contract of a pair that is already  *)
(* completed writes neither the pair's totalProfit nor the session         *)
(* counters again.                                                         *)
(***************************************************************************)
Completed(pair) == pair.status = "completed"

\* a pair of tradeHistory goes from active to completed in this step
CompletionStep ==
    /\ Len(tradeHistory') = Len(tradeHistory)
    /\ \E i \in DOMAIN tradeHistory :
           ~Completed(tradeHistory[i]) /\ Completed(tradeHistory'[i])

CompletedOnce ==
    [][/\ Len(tradeHistory') = Len(tradeHistory) =>
              \A i \in DOMAIN tradeHistory :
                  Completed(tradeHistory[i]) =>
                      /\ Completed(tradeHistory'[i])
                      /\ tradeHistory'[i].totalProfit = tradeHistory[i].totalProfit
       /\ <<totalProfit, totalLoss, consecutiveLosses>>' #
              <<totalProfit, totalLoss, consecutiveLosses>> => CompletionStep]_vars

(***************************************************************************)
(* C6: an updateTradeResult call that completes a pair leaves              *)
(* consecutiveLosses at 0 when the combined profit is positive; otherwise  *)
(* consecutiveLosses is one more than before and totalLoss has grown by    *)
(* the magnitude of the combined profit.                                   *)
(***************************************************************************)
CompletionAccounting ==
    [][Len(tradeHistory') = Len(tradeHistory) =>
          \A i \in DOMAIN tradeHistory :
              (~Completed(tradeHistory[i]) /\ Completed(tradeHistory'[i])) =>
                  LET p == tradeHistory'[i].higherTrade.profit
                               + tradeHistory'[i].lowerTrade.profit
                  IN  /\ tradeHistory'[i].totalProfit = p
                      /\ IF p > 0
                           THEN consecutiveLosses' = 0
                           ELSE /\ consecutiveLosses' = consecutiveLosses + 1
                                /\ totalLoss' = totalLoss + Abs(p)]_vars

\* a pair has completed with a combined profit of zero and was counted as a loss,
\* and another pair has completed with a positive combined profit
CompletionWitness ==
    /\ \E i \in DOMAIN tradeHistory :
           tradeHistory[i].status = "completed" /\ tradeHistory[i].totalProfit = 0
    /\ \E i \in DOMAIN tradeHistory :
           tradeHistory[i].status = "completed" /\ tradeHistory[i].totalProfit > 0
    /\ consecutiveLosses = 1
    /\ totalProfit = 2

(***************************************************************************)
(* C7: when a leg of executeTradePair fails, tradeHistory is left as it    *)
(* was; a pair enters tradeHistory only in the step in which the second    *)
(* buy of a pair in execution succeeds, and every recorded leg is active   *)
(* or settled and carries its contract identifier.                         *)
(***************************************************************************)
FailureRecordsNothing ==
    /\ [][\A l \in LoopIds :
             (loops[l].pc = "exec" /\ loops'[l].pc = "none") =>
                 tradeHistory' = tradeHistory]_vars
    /\ [][Len(tradeHistory') > Len(tradeHistory) =>
             \E l \in LoopIds, side \in Sides :
                 /\ loops[l].pc = "exec" /\ loops'[l].pc = "timer"
                 /\ loops[l][side] = "buy" /\ loops[l][Other(side)] = "done"]_vars
    /\ [](\A i \in DOMAIN tradeHistory :
             /\ tradeHistory[i].higherTrade.status \in {"active", "won", "lost"}
             /\ tradeHistory[i].lowerTrade.status \in {"active", "won", "lost"}
             /\ tradeHistory[i].higherTrade.contractId > 0
             /\ tradeHistory[i].lowerTrade.contractId > 0)

\* a pair failed after one of its buys had succeeded, next to a recorded pair
FailureWitness ==
    /\ ~isTrading
    /\ Len(tradeHistory) = 1
    /\ \E l \in LoopIds : loops[l].pc = "none" /\ loops[l].higher = "buy"


(***************************************************************************)
(* C8: both legs of every pair, placed or being placed, carry the stake    *)
(* min(base * multiplier^L, 10 * base), L being consecutiveLosses when     *)
(* executeTradePair began; the stake never exceeds 10 * base and the       *)
(* pair's totalStake is twice the stake.                                   *)
(***************************************************************************)
RuleStake(L) ==
    Min(tradeConfig.stake * Pow(tradeConfig.martingaleMultiplier, L), 10 * tradeConfig.stake)

StakeRule ==
    /\ \A i \in DOMAIN tradeHistory :
           /\ tradeHistory[i].higherTrade.stake = RuleStake(tradeHistory[i].atLosses)
           /\ tradeHistory[i].lowerTrade.stake = RuleStake(tradeHistory[i].atLosses)
           /\ tradeHistory[i].higherTrade.stake <= 10 * tradeConfig.stake
           /\ tradeHistory[i].totalStake = 2 * RuleStake(tradeHistory[i].atLosses)
    /\ \A l \in InFlight :
           /\ loops[l].stake = RuleStake(loops[l].atLosses)
           /\ loops[l].stake <= 10 * tradeConfig.stake

\* a pair was placed after a loss with the cap engaged (1 * 12^1 capped to 10),
\* after a pair placed at the base stake
StakeWitness ==
    /\ Len(tradeHistory) = 2
    /\ tradeHistory[1].atLosses = 1
    /\ tradeHistory[1].higherTrade.stake = 10
    /\ tradeHistory[1].totalStake = 20
    /\ tradeHistory[2].higherTrade.stake = 1

(***************************************************************************)
(* C9: an iteration that starts after k pairs in a row completed with a    *)
(* loss since the last winning pair places its legs with the stake         *)
(* min(base * multiplier^k, 10 * base).                                    *)
(***************************************************************************)
IterationStake ==
    [][\A l \in LoopIds :
          (loops[l].pc # "exec" /\ loops'[l].pc = "exec") =>
              loops'[l].stake = RuleStake(lossRun)]_vars

(***************************************************************************)
(* C10: when the loop stops itself, because the affordability check fails  *)
(* or executeTradePair raises an error, isTrading is false afterwards and  *)
(* no next-iteration timer remains scheduled.                              *)
(***************************************************************************)
SelfStop ==
    \/ \E l \in LoopIds : isTrading /\ ~isTrading' /\ TimerFire(l)
    \/ ~isTrading /\ ~isTrading' /\ StartAutoTrading
    \/ \E l \in LoopIds, side \in Sides :
           loops[l].pc = "exec" /\ loops'[l].pc = "none" /\ LegFail(l, side)

SelfStopIsFinal ==
    [][SelfStop => (~isTrading' /\ \A l \in LoopIds : loops'[l].pc # "timer")]_vars


(***************************************************************************)
(* C11: startAutoTrading called while isTrading is true is refused: it     *)
(* changes nothing of the engine's state, the pending iteration timer      *)
(* included, and starts no second loop.                                    *)
(***************************************************************************)
StartRefusedWhileTrading ==
    [][(isTrading /\ StartAutoTrading) => UNCHANGED engineVars]_vars

\* a cycle is running with its iteration timer pending and a closure slot is
\* free, the state in which a second startAutoTrading is refused
StartRefusedWitness ==
    /\ isTrading
    /\ tradeTimeout # 0 /\ loops[tradeTimeout].pc = "timer"
    /\ \E l \in LoopIds : FreeLoop(l)


(***************************************************************************)
(* C12: the 30 s timer of a call that is still pending fails the call with *)
(* "Request timeout" and removes its pending entry; from then on the call  *)
(* stays failed and has no pending entry, and a reply that carries its     *)
(* identifier changes nothing of the client's state.                       *)
(***************************************************************************)
TimedOut(c) == calls[c].state = "timeout"

Closes(s) ==
    /\ socks[s] \in {"connecting", "open", "closing"}
    /\ socks'[s] \in {"closed", "free"}

Opens(s) == socks[s] = "connecting" /\ socks'[s] = "open"

Schedules == rcTimers' = rcTimers + 1

BackoffSchedule ==
    /\ [](reconnectAttempts \in 0..5)
    /\ [][\A s \in Sockets :
             (Closes(s) /\ reconnectAttempts < 5) => Schedules]_vars
    /\ [][Schedules =>
             /\ reconnectAttempts < 5
             /\ reconnectAttempts' = reconnectAttempts + 1
             /\ reconnectDelay' = Pow(2, reconnectAttempts') * 1000]_vars
    /\ [][\A s \in Sockets : Opens(s) => reconnectAttempts' = 0]_vars
    /\ [][reconnectAttempts' # reconnectAttempts =>
             Schedules \/ \E s \in Sockets : Opens(s)]_vars

\* the fifth attempt in a row is scheduled, 32 s ahead
BackoffWitness ==
    /\ reconnectAttempts = 5
    /\ reconnectDelay = 32000
    /\ rcHandleLive


(***************************************************************************)
(* C14: the close that finds all 5 reconnect attempts used up hands an     *)
(* outcome to the user of the client: a call of theirs is failed or a      *)
(* handler of theirs is invoked.                                           *)
(***************************************************************************)
ExhaustionSurfaced ==
    [][\A s \in Sockets :
          (Closes(s) /\ reconnectAttempts = maxReconnectAttempts) =>
              (calls' # calls \/ delivered' # delivered)]_vars


(***************************************************************************)
(* C15: disconnect() fails every call that is outstanding when it is       *)
(* called: no call is still pending when disconnect() has returned.        *)
(***************************************************************************)
Pending(c) == calls[c].state = "pending"

DisconnectFailsCalls ==
    [][((\E c \in DOMAIN calls : Pending(c)) /\ Disconnect) =>
          \A c \in DOMAIN calls : calls'[c].state # "pending"]_vars


(***************************************************************************)
(* C16: when disconnect() returns, the pending-call table and the          *)
(* subscription table are empty and the transport the client held is       *)
(* closed; a call that was pending at disconnect() is completed by nothing *)
(* afterwards, neither a late reply nor its timer; no handler registered   *)
(* before disconnect() is invoked afterwards; and a disconnect() called in *)
(* the state disconnect() leaves changes nothing.                          *)
(***************************************************************************)
\* the state disconnect() leaves
Disconnected ==
    /\ ws = 0
    /\ callbacks = EmptyMap
    /\ subscriptions = EmptyMap
    /\ ~rcHandleLive

\* a pending call whose completion was dropped from the pending-call table
Orphaned(c) == calls[c].state = "pending" /\ calls[c].id \notin DOMAIN callbacks

DisconnectIsFinal ==
    /\ [][Disconnect =>
             /\ Disconnected'
             /\ ws # 0 => socks'[ws] \notin {"connecting", "open"}
             /\ \A c \in DOMAIN calls : Pending(c) => Orphaned(c)']_vars
    /\ [][\A c \in DOMAIN calls :
             Orphaned(c) => (calls'[c] = calls[c] /\ Orphaned(c)')]_vars
    /\ [][subscriptions = EmptyMap => delivered' = delivered]_vars
    /\ [][(Disconnected /\ Disconnect) => UNCHANGED vars]_vars

\* after a disconnect() that dropped a pending call and a handler that had
\* been invoked, the client is connected again and nothing is registered
DisconnectWitness ==
    /\ WsOpen
    /\ subscriptions = EmptyMap
    /\ delivered # NoDelivery
    /\ \E c \in DOMAIN calls : Orphaned(c)


(***************************************************************************)
(* C17: every channel kind has at most one registered handler; a subscribe *)
(* call for a kind registers its handler in place of the prior one and     *)
(* leaves the other kinds alone; a push of a kind invokes the handler      *)
(* registered for that kind at that moment and no other, and invokes none  *)
(* when the kind has no handler.                                           *)
(***************************************************************************)
HandlerDispatch ==
    /\ [](DOMAIN subscriptions \subseteq Channels /\
          \A ch \in DOMAIN subscriptions : subscriptions[ch] \in Handlers)
    /\ [][\A p \in Subscribers :
             Subscribe(p[1], p[2]) =>
                 /\ subscriptions'[p[1]] = p[2]
                 /\ DOMAIN subscriptions' = DOMAIN subscriptions \cup {p[1]}
                 /\ \A ch \in DOMAIN subscriptions \ {p[1]} :
                        subscriptions'[ch] = subscriptions[ch]]_vars
    /\ [][\A ch \in Channels :
             Push(ch) =>
                 IF ch \in DOMAIN subscriptions
                   THEN delivered' = [ch |-> ch, h |-> subscriptions[ch]]
                   ELSE delivered' = delivered]_vars
    /\ [][delivered' # delivered =>
             /\ delivered'.ch \in DOMAIN subscriptions
             /\ delivered'.h = subscriptions[delivered'.ch]]_vars

\* a tick push was handed to handler 2 of the tick kind while another kind
\* has handler 1 registered
HandlerDispatchWitness ==
    /\ delivered = [ch |-> "tick", h |-> 2]
    /\ DOMAIN subscriptions = {"tick", "balance"}
    /\ subscriptions["tick"] = 2
    /\ subscriptions["balance"] = 1


(***************************************************************************)
(* C18: once setMarket(B) has succeeded after a successful setMarket(A)    *)
(* with A different from B, a tick push for symbol A leaves                *)
(* currentMarket.currentPrice as it is: only ticks for B change it.        *)
(***************************************************************************)
\* the last setMarket succeeded and installed symbol b, after a successful
\* setMarket for symbol a
Switched(a, b) ==
    /\ a # b
    /\ a \in streams
    /\ b \in streams
    /\ marketError = "none"
    /\ currentMarket.present
    /\ currentMarket.symbol = b

OneMarketWatched ==
    [][\A a, b \in Symbols, quote \in Quotes :
          (Switched(a, b) /\ TickPush(a, quote)) =>
              currentMarket'.currentPrice = currentMarket.currentPrice]_vars

(***************************************************************************)
(* C19: whenever accountInfo is present, availableBalance equals balance   *)
(* minus lockedBalance, whatever the order of initialize calls, balance    *)
(* pushes and setLockedBalance calls that led there.                       *)
(***************************************************************************)
AvailableBalanceInvariant ==
    accountInfo.present =>
        accountInfo.availableBalance = accountInfo.balance - accountInfo.lockedBalance

\* setLockedBalance has locked an amount of a reported balance
AvailableBalanceWitness ==
    /\ accountInfo.present
    /\ accountInfo.lockedBalance = 2
    /\ accountInfo.balance = 40
    /\ accountInfo.availableBalance = 38

(***************************************************************************)
(* C20: an initialize() whose authorize or getBalance call fails throws    *)
(* and leaves the session as it was: on a session that was never           *)
(* initialized isConnected stays false, accountInfo stays absent and no    *)
(* balance handler is registered.                                          *)
(***************************************************************************)
InitFailureLeavesSession ==
    [][\A call \in InitCalls :
          InitializeFails(call) =>
              /\ initError' = call
              /\ isConnected' = isConnected
              /\ accountInfo' = accountInfo
              /\ subscriptions' = subscriptions
              /\ ~isConnected =>
                     (~isConnected' /\ ~accountInfo'.present /\
                      "balance" \notin DOMAIN subscriptions')]_vars

\* initialize() has failed at getBalance on a session never initialized
InitFailureWitness ==
    /\ initError = "balance"
    /\ ~isConnected
    /\ ~accountInfo.present
    /\ "balance" \notin DOMAIN subscriptions


(***************************************************************************)
(* C21: a setMarket whose contracts-for request the venue rejects throws   *)
(* and leaves currentMarket and the registered tick handler exactly as     *)
(* they were before the call.                                              *)
(***************************************************************************)
RejectedMarketLeavesMarket ==
    [][\A symbol \in Symbols :
          SetMarketFails(symbol, "contracts_for") =>
              /\ marketError' = "contracts_for"
              /\ currentMarket' = currentMarket
              /\ subscriptions' = subscriptions
              /\ streams' = streams]_vars

\* the venue rejected a symbol while R_10 was watched: R_10 and its last price
\* are still installed and the tick handler is still registered
RejectedMarketWitness ==
    /\ marketError = "contracts_for"
    /\ currentMarket.present
    /\ currentMarket.symbol = "R_10"
    /\ currentMarket.currentPrice = 2
    /\ "tick" \in DOMAIN subscriptions


(***************************************************************************)
(* C22: executeTradePair called while currentMarket or accountInfo is      *)
(* absent throws; it transmits no request and changes no field of          *)
(* TradingState.                                                           *)
(***************************************************************************)
tradingState == <<isConnected, isTrading, accountInfo, currentMarket, tradeHistory,
                  totalProfit, totalLoss, consecutiveLosses>>

NotReadyRefused ==
    [][\A config \in PairConfigs :
          ((~currentMarket.present \/ ~accountInfo.present) /\ ExecuteTradePair(config)) =>
              /\ direct'.pc = "failed"
              /\ direct'.error = "NotReady"
              /\ direct'.higher = direct.higher
              /\ direct'.lower = direct.lower
              /\ UNCHANGED apiVars
              /\ UNCHANGED tradingState]_vars

\* executeTradePair has thrown for want of a market on an initialized account;
\* no leg is in flight and nothing was recorded
NotReadyWitness ==
    /\ direct.pc = "failed"
    /\ direct.error = "NotReady"
    /\ accountInfo.present
    /\ ~currentMarket.present
    /\ direct.higher = "idle" /\ direct.lower = "idle"
    /\ tradeHistory = <<>>


(***************************************************************************)
(* C23: whatever the sign of the configured barriers, the higher leg of a  *)
(* pair built by executeTradePair carries the positive magnitude clamped   *)
(* into [minBarrier, maxBarrier] of the market and the lower leg the       *)
(* negation of the clamped negative magnitude; with minBarrier > 0 every   *)
(* higher leg has a barrier above 0 and every lower leg one below 0.       *)
(***************************************************************************)
Clamped(x) ==
    IF x < currentMarket.minBarrier THEN currentMarket.minBarrier
    ELSE IF x > currentMarket.maxBarrier THEN currentMarket.maxBarrier
    ELSE x

BarrierRule ==
    /\ [][\A config \in PairConfigs :
             (direct'.pc = "exec" /\ direct.pc # "exec" /\ ExecuteTradePair(config)) =>
                 /\ direct'.positiveBarrier =
                        Clamped(IF config.positiveBarrier < 0 THEN -config.positiveBarrier
                                                              ELSE config.positiveBarrier)
                 /\ direct'.negativeBarrier =
                        -Clamped(IF config.negativeBarrier < 0 THEN -config.negativeBarrier
                                                               ELSE config.negativeBarrier)]_vars
    /\ [][Len(tradeHistory') = Len(tradeHistory) + 1 =>
             /\ tradeHistory'[1].higherTrade.type = "higher"
             /\ tradeHistory'[1].higherTrade.barrier = direct.positiveBarrier
             /\ tradeHistory'[1].lowerTrade.type = "lower"
             /\ tradeHistory'[1].lowerTrade.barrier = direct.negativeBarrier]_vars
    /\ [](\A i \in DOMAIN tradeHistory :
             /\ tradeHistory[i].higherTrade.barrier > 0
             /\ tradeHistory[i].higherTrade.barrier >= currentMarket.minBarrier
             /\ tradeHistory[i].higherTrade.barrier <= currentMarket.maxBarrier
             /\ tradeHistory[i].lowerTrade.barrier < 0
             /\ -tradeHistory[i].lowerTrade.barrier >= currentMarket.minBarrier
             /\ -tradeHistory[i].lowerTrade.barrier <= currentMarket.maxBarrier)

\* pairs were placed on R_25 from a positive barrier configured as -500 (clamped
\* to 250) with a negative barrier configured as 0 (clamped to -1), and from
\* barriers configured as -5 and -5 (5 and -5)
BarrierWitness ==
    /\ \E i \in DOMAIN tradeHistory :
           /\ tradeHistory[i].higherTrade.barrier = 250
           /\ tradeHistory[i].lowerTrade.barrier = -1
    /\ \E i \in DOMAIN tradeHistory :
           /\ tradeHistory[i].higherTrade.barrier = 5
           /\ tradeHistory[i].lowerTrade.barrier = -5


(***************************************************************************)
(* C24: when both legs of executeTradePair succeed, the pair is inserted   *)
(* at the head of tradeHistory with both legs active and carrying their    *)
(* contract identifiers; the pairs already there move down by one in       *)
(* their order; and no step removes a pair or changes the order of the     *)
(* pairs.                                                                  *)
(***************************************************************************)
\* the contract identifiers tell the pairs apart
Identity(pair) == <<pair.higherTrade.contractId, pair.lowerTrade.contractId>>

HistoryOrder ==
    /\ [][Len(tradeHistory') = Len(tradeHistory) + 1 =>
             /\ direct.pc = "exec" /\ direct'.pc = "returned"
             /\ tradeHistory'[1].status = "active"
             /\ tradeHistory'[1].higherTrade.status = "active"
             /\ tradeHistory'[1].lowerTrade.status = "active"
             /\ tradeHistory'[1].higherTrade.contractId # 0
             /\ tradeHistory'[1].lowerTrade.contractId # 0
             /\ \A i \in DOMAIN tradeHistory : tradeHistory'[i + 1] = tradeHistory[i]]_vars
    /\ [][Len(tradeHistory') = Len(tradeHistory) =>
             \A i \in DOMAIN tradeHistory :
                 Identity(tradeHistory'[i]) = Identity(tradeHistory[i])]_vars
    /\ [][Len(tradeHistory') \in {Len(tradeHistory), Len(tradeHistory) + 1}]_vars
    /\ [][(direct.pc = "exec" /\ direct'.pc = "returned") =>
             Len(tradeHistory') = Len(tradeHistory) + 1]_vars

\* the pair placed second is at the head, the pair placed first behind it, where
\* it was completed
HistoryOrderWitness ==
    /\ Len(tradeHistory) = 2
    /\ Identity(tradeHistory[1]) = <<3, 4>>
    /\ tradeHistory[1].status = "active"
    /\ Identity(tradeHistory[2]) = <<1, 2>>
    /\ tradeHistory[2].status = "completed"


(***************************************************************************)
(* C25: when a pair completes, a combined profit that is not negative,     *)
(* zero included, resets consecutiveLosses to 0 and is added to            *)
(* totalProfit; only a combined profit below zero increments               *)
(* consecutiveLosses and adds its magnitude to totalLoss.                  *)
(***************************************************************************)
BreakEvenIsNoLoss ==
    [][Len(tradeHistory') = Len(tradeHistory) =>
          \A i \in DOMAIN tradeHistory :
              (~Completed(tradeHistory[i]) /\ Completed(tradeHistory'[i])) =>
                  LET p == tradeHistory'[i].higherTrade.profit
                               + tradeHistory'[i].lowerTrade.profit
                  IN  IF p >= 0
                        THEN /\ consecutiveLosses' = 0
                             /\ totalProfit' = totalProfit + p
                             /\ totalLoss' = totalLoss
                        ELSE /\ consecutiveLosses' = consecutiveLosses + 1
                             /\ totalLoss' = totalLoss - p
                             /\ totalProfit' = totalProfit]_vars


(***************************************************************************)
(* C26: the status of a Trade only moves forward, pending, active, then    *)
(* won or lost: a leg that is won or lost is terminal, and no later        *)
(* updateTradeResult call, with the same or another outcome, changes its   *)
(* status or its profit.                                                   *)
(***************************************************************************)
Terminal(trade) == trade.status \in {"won", "lost"}

\* the places of tradeHistory' the pairs of tradeHistory have moved to
Moved(i) == i + Len(tradeHistory') - Len(tradeHistory)

TerminalIsFinal ==
    [][\A i \in DOMAIN tradeHistory :
          /\ Terminal(tradeHistory[i].higherTrade) =>
                 /\ tradeHistory'[Moved(i)].higherTrade.status =
                        tradeHistory[i].higherTrade.status
                 /\ tradeHistory'[Moved(i)].higherTrade.profit =
                        tradeHistory[i].higherTrade.profit
          /\ Terminal(tradeHistory[i].lowerTrade) =>
                 /\ tradeHistory'[Moved(i)].lowerTrade.status =
                        tradeHistory[i].lowerTrade.status
                 /\ tradeHistory'[Moved(i)].lowerTrade.profit =
                        tradeHistory[i].lowerTrade.profit]_vars


(***************************************************************************)
(* C27: disconnect() of the engine stops auto-trading, isTrading is false  *)
(* and no iteration timer is pending when it returns, sets isConnected to  *)
(* false, and leaves tradeHistory, accountInfo, currentMarket,             *)
(* totalProfit, totalLoss and consecutiveLosses unchanged.                 *)
(***************************************************************************)
TimerPending == \E l \in LoopIds : loops[l].pc = "timer"

EngineDisconnectStops ==
    [][EngineDisconnect =>
          /\ ~isTrading'
          /\ ~isConnected'
          /\ ~TimerPending'
          /\ UNCHANGED <<tradeHistory, accountInfo, currentMarket, totalProfit,
                         totalLoss, consecutiveLosses>>]_vars


(***************************************************************************)
(* C28: a copy of TradingState that was handed out is immutable: no later  *)
(* step of the engine (a balance or tick push, setLockedBalance, a change  *)
(* of tradeHistory) changes what the holder of the copy reads from it.     *)
(***************************************************************************)
\* what the holder of the copy reads from it
Contents ==
    [isConnected |-> snapshot.isConnected, isTrading |-> snapshot.isTrading,
     totalProfit |-> snapshot.totalProfit, totalLoss |-> snapshot.totalLoss,
     consecutiveLosses |-> snapshot.consecutiveLosses,
     accountInfo |-> IF snapshot.accountShared THEN accountInfo ELSE snapshot.account,
     currentMarket |-> IF snapshot.marketShared THEN currentMarket ELSE snapshot.market,
     tradeHistory |-> tradeHistory]

SnapshotImmutable ==
    [][(snapshot.taken /\ ~GetTradingState) => Contents' = Contents]_vars

(***************************************************************************)
(* C29: for every account and every risk percentage in 0..100,             *)
(* calculateRecommendedStake returns a recommendedStake that is at least   *)
(* 0.35 and at most min(2000, available / 4), and canTrade is true exactly *)
(* when available >= 2 * recommendedStake.                                 *)
(***************************************************************************)
InStakeRange ==
    /\ AtMost(Frac(35, 100), riskCalc.recommendedStake)
    /\ AtMost(riskCalc.recommendedStake,
              Least(Whole(2000), Over(riskCalc.availableBalance, Whole(4))))

Affordable ==
    AtMost(Times(riskCalc.recommendedStake, Whole(2)), riskCalc.availableBalance)

RecommendedStakeContract ==
    riskCalc.fn = "calculateRecommendedStake" =>
        /\ InStakeRange
        /\ riskCalc.canTrade <=> Affordable

(***************************************************************************)
(* C30: for every base stake, every multiplier and all loss counts n >= 0, *)
(* calculateMartingaleStake(base, n, m) is non-decreasing in n and never   *)
(* exceeds 10 * base.  Two calls with the same base stake and multiplier   *)
(* are compared: the one with the larger count returns at least as much.   *)
(***************************************************************************)
Escalation ==
    /\ riskCalc.fn = "calculateMartingaleStake"
    /\ riskCalc'.fn = "calculateMartingaleStake"
    /\ riskCalc'.baseStake = riskCalc.baseStake
    /\ riskCalc'.multiplier = riskCalc.multiplier
    /\ riskCalc'.consecutiveLosses >= riskCalc.consecutiveLosses

WithinCap ==
    riskCalc.fn = "calculateMartingaleStake" =>
        AtMost(riskCalc.stake, Times(Whole(10), riskCalc.baseStake))

\* C30 as stated: for every multiplier
MartingaleStakeMonotone ==
    /\ [][Escalation => AtMost(riskCalc.stake, riskCalc'.stake)]_vars
    /\ []WithinCap

\* C30 for the multipliers that escalate: non-decreasing in n and never above
\* 10 * base for every multiplier m >= 1
MartingaleStakeEscalates ==
    /\ [][(Escalation /\ AtMost(Whole(1), riskCalc.multiplier))
              => AtMost(riskCalc.stake, riskCalc'.stake)]_vars
    /\ []WithinCap

\* C30: a call with multiplier 2 after four losses returned the capped 10 * base
MartingaleStakeWitness ==
    /\ riskCalc.fn = "calculateMartingaleStake"
    /\ riskCalc.multiplier = Whole(2)
    /\ riskCalc.consecutiveLosses = 4
    /\ riskCalc.stake = Times(Whole(10), riskCalc.baseStake)

(***************************************************************************)
(* C31: consecutiveLosses, totalProfit and totalLoss change only in an     *)
(* updateTradeResult call that finds the contract in a pair and leaves     *)
(* both legs of that pair won or lost; an updateTradeResult that matches   *)
(* no leg or settles only the first leg of a pair, and every other         *)
(* operation, leave all three as they were.                                *)
(***************************************************************************)
Counters == <<consecutiveLosses, totalProfit, totalLoss>>

Settled(trade) == trade.status \in {"won", "lost"}

Held(side) == direct[side] = "held"

SurvivorLeftAlone ==
    /\ [](\A side \in Sides : Held(side) => PairOf(SurvivorId(side)) = 0)
    /\ [][\A side \in Sides :
             /\ (~Held(side) /\ direct'[side] = "held") => tradeHistory' = tradeHistory
             /\ (Held(side) /\ direct'.pc # "exec") => direct'[side] = "held"
             /\ \A r \in Results :
                    (Held(side) /\ UpdateTradeResult(SurvivorId(side), r))
                        => UNCHANGED vars]_vars

\* C32: the call failed with the higher contract bought, next to a recorded pair
SurvivorWitness ==
    /\ direct.pc = "failed" /\ direct.error = "venue"
    /\ direct.higher = "held" /\ direct.lower = "idle"
    /\ Len(tradeHistory) = 1

(***************************************************************************)
(* C33: for the account, the TradeConfig and the consecutive-loss count of *)
(* every state the engine reaches, the engine's canExecuteTrade and        *)
(* calculateStakeWithMartingale return what RiskCalculator.canExecuteTrade *)
(* and RiskCalculator.calculateMartingaleStake (cap 10) return for them.   *)
(***************************************************************************)
EngineAgreesWithRiskModule ==
    accountInfo.present =>
        /\ Whole(CalculateStakeWithMartingale(tradeConfig)) =
               CalculateMartingaleStake(Whole(tradeConfig.stake), consecutiveLosses,
                                        Whole(tradeConfig.martingaleMultiplier),
                                        DefaultMaxMultiplier)
        /\ CanExecuteTrade(tradeConfig) <=>
               RiskCanExecuteTrade(accountInfo, tradeConfig, consecutiveLosses)

\* C33: an iteration of the loop passed the check and took the capped stake
\* after a loss, and the engine now refuses the next pair for lack of balance
AgreementWitness ==
    /\ accountInfo.present
    /\ tradeConfig.martingaleMultiplier = 12
    /\ consecutiveLosses > 0
    /\ ~CanExecuteTrade(tradeConfig)
    /\ \E l \in LoopIds : loops[l].pc = "exec" /\ loops[l].stake = 10

(***************************************************************************)
(* C34: at most one auto-trading loop is live, whatever the order of       *)
(* startAutoTrading, stopAutoTrading, venue replies and timer firings:     *)
(* there is never more than one pending next-iteration timer and never     *)
(* more than one loop iteration executing a trade pair.                    *)
(***************************************************************************)
PendingTimers == {l \in LoopIds : loops[l].pc = "timer"}

SingleLoop ==
    /\ Cardinality(PendingTimers) <= 1
    /\ Cardinality(InFlight) <= 1

(***************************************************************************)
(* C35: every pair the auto-trading loop submits has a combined stake,     *)
(* twice the stake of a leg, of at most availableBalance at the moment the *)
(* iteration submits its legs: the affordability check and the stake       *)
(* computation of the iteration read the same consecutiveLosses and the    *)
(* same availableBalance, and the step changes neither.                    *)
(***************************************************************************)
LoopSubmits(l) == loops[l].pc # "exec" /\ loops'[l].pc = "exec"

NeverOverspends ==
    [][\A l \in LoopIds :
          LoopSubmits(l) =>
              /\ accountInfo.present
              /\ 2 * loops'[l].stake <= accountInfo.availableBalance
              /\ loops'[l].stake = MartingaleStake(tradeConfig, consecutiveLosses)
              /\ loops'[l].atLosses = consecutiveLosses
              /\ accountInfo' = accountInfo
              /\ consecutiveLosses' = consecutiveLosses]_vars

\* C35: an iteration submitted a pair at the capped stake 10 with 40 available
OverspendWitness ==
    \E l \in LoopIds :
        /\ loops[l].pc = "exec"
        /\ loops[l].stake = 10
        /\ loops[l].higher = "proposal" /\ loops[l].lower = "proposal"
        /\ accountInfo.availableBalance = 40

(***************************************************************************)
(* C36: in every reachable state totalProfit - totalLoss equals the sum of *)
(* totalProfit over the completed pairs of tradeHistory, also after        *)
(* repeated settlement events for the same contract.                       *)
(***************************************************************************)
RECURSIVE CompletedProfit(_)
CompletedProfit(history) ==
    IF history = <<>>
      THEN 0
      ELSE (IF Head(history).status = "completed" THEN Head(history).totalProfit ELSE 0)
           + CompletedProfit(Tail(history))

LedgerBalanced == totalProfit - totalLoss = CompletedProfit(tradeHistory)

(***************************************************************************)
(* C37: every pair of tradeHistory is active or completed and has no leg   *)
(* pending; it is completed exactly when both legs are won or lost; its    *)
(* totalProfit is defined exactly when it is completed, and then it is the *)
(* sum of the profit the two legs carry now.                               *)
(***************************************************************************)
WellFormed(pair) ==
    /\ pair.status \in {"active", "completed"}
    /\ pair.higherTrade.status # "pending" /\ pair.lowerTrade.status # "pending"
    /\ pair.status = "completed" <=>
           (pair.higherTrade.status \in {"won", "lost"}
            /\ pair.lowerTrade.status \in {"won", "lost"})
    /\ pair.hasTotalProfit <=> pair.status = "completed"
    /\ pair.status = "completed" =>
           pair.totalProfit = pair.higherTrade.profit + pair.lowerTrade.profit

HistoryWellFormed == \A i \in DOMAIN tradeHistory : WellFormed(tradeHistory[i])

\* C37: a pair that completed with a loss and whose higher leg a later event
\* settled again as won, next to a pair with one leg settled
HistoryWitness ==
    /\ Len(tradeHistory) = 2
    /\ tradeHistory[2].status = "completed"
    /\ tradeHistory[2].higherTrade.status = "won"
    /\ tradeHistory[2].totalProfit = 0
    /\ totalLoss = 2
    /\ tradeHistory[1].status = "active"
    /\ tradeHistory[1].lowerTrade.status = "lost"

(***************************************************************************)
(* C38: at most one keep-alive interval runs at any time and, while the    *)
(* transport is open, exactly one, so that one ping goes out per period    *)
(* whatever closes and reconnects came before; after disconnect(), while   *)
(* this.ws is null, a tick of an interval sends nothing.                   *)
(***************************************************************************)
OneKeepAlive ==
    /\ [](heartbeats <= 1 /\ (WsOpen => heartbeats = 1))
    /\ [][(HeartbeatTick /\ ws = 0) => (wire' = wire /\ calls' = calls)]_vars

====
